---- MODULE Spec2Model ----
(***************************************************************************)
(* A model of contextvars/__init__.py: Context, ContextVar, Token, the     *)
(* per-thread / per-task registry (_get_state, _get_context, _set_context) *)
(* and the create_task hook.                                               *)
(*                                                                         *)
(* Threads are preemptive: a thread switch can fall between any two lines  *)
(* of Context.run, so run is modelled line by line (RunCheck, RunRecord,   *)
(* RunInstall, RunRestore, RunClear).  Tasks of the one event loop run on  *)
(* LoopThread and are switched only at suspension points; a callable       *)
(* passed to Context.run is synchronous and cannot suspend.                *)
(*                                                                         *)
(* The program is explored in two scenarios, chosen in Init: one thread that *)
(* runs the event loop, and that thread beside a second, preemptive one.    *)
(* The second scenario has tighter bounds (ObjBound, DepthBound).          *)
(*                                                                         *)
(* immutables.Map is a persistent map: set and delete return a new map and *)
(* leave the receiver unchanged, so a reference to one is modelled by its  *)
(* value, a total function from Vars with MISSING for an absent key.       *)
(***************************************************************************)
EXTENDS Integers, Sequences, FiniteSets, TLC

\* Bounds of the model.
MaxObj == 3
MaxDepth == 2

\* The program's execution units and inputs.
Threads == {"t1", "t2"}
LoopThread == "t1"
Tasks == {"k1", "k2"}
NoTask == "none"
Units == Threads \cup Tasks
Vars == {"v", "w"}
Vals == {1, 2}

\* Identities of Context objects.  Every object is constructed at most once, so
\* an identity is never reused: the context a thread's first _get_context
\* constructs, the context create_task gives a task, and the contexts the
\* program constructs itself (Context(), copy, copy_context), in that order.
DefaultCtx(t) == IF t = "t1" THEN 1 ELSE 2
TaskCtx(k) == IF k = "k1" THEN 3 ELSE 4
UserIds == 5..(4 + MaxObj)
Ctx == 1..(4 + MaxObj)

\* Sentinels of the source.
None == 0
MISSING == 0
NO_DEFAULT == -1
LookupError == -2

VARIABLES
    threads,    \* the threads the program runs
    made,       \* the Context objects constructed so far
    data,       \* Context._data, by context
    prev,       \* Context._prev_context, by context (None: not entered)
    userCtx,    \* contexts the program holds a reference to
    stateCtx,   \* the context attribute of _state (per thread) and of each task
    tokens,     \* the Token objects created so far
    stack,      \* per unit, the Context.run frames in progress
    pc,         \* per thread, the position inside Context.run
    cur,        \* asyncio.Task.current_task of the loop (NoTask: none)
    task,       \* per task: created or not, the context captured at creation
    origin,     \* history: the context each context was copied from (None: none)
    lastSet     \* history: the set the last step performed (its token, the bindings
                \* before it), or that set undone by the reset that followed it directly,
                \* or the reset the last step performed and how it failed

vars == <<threads, made, data, prev, userCtx, stateCtx, tokens, stack, pc, cur, task, origin, lastSet>>

EmptyMap == [k \in Vars |-> MISSING]

\* immutables.Map: lookup (MISSING stands for KeyError), set, delete.
MapGet(m, k) == m[k]

MapSet(m, k, x) == [m EXCEPT ![k] = x]

MapDelete(m, k) == [m EXCEPT ![k] = MISSING]

\* ContextVar.__init__: v was constructed with a default, w without.
DefaultOf(var) == IF var = "v" THEN 3 ELSE NO_DEFAULT

\* _get_state: the task when one is running on this thread's loop, else the
\* thread's own threading.local.
Running(t) == IF t = LoopThread /\ cur # NoTask THEN cur ELSE t

\* _get_context: the unit's context, a freshly constructed one when it has none.
NeedsNew(u) == stateCtx[u] = None

\* (In the model a unit constructs a context this way at most once, and only
\* a thread does.)
\* The identity of the context a first _get_context constructs (None: the
\* model has no identity left for it, and CanGetContext is false).
FreshCtx(u) == IF u \in Threads /\ DefaultCtx(u) \notin made THEN DefaultCtx(u) ELSE None

CtxOf(u) == IF NeedsNew(u) THEN FreshCtx(u) ELSE stateCtx[u]

CanGetContext(u) == NeedsNew(u) => FreshCtx(u) # None

MadeAfterGet(u) == IF NeedsNew(u) THEN made \cup {CtxOf(u)} ELSE made

\* The objects the program has constructed itself: contexts, tokens, tasks.
Objects == Cardinality(made \ {DefaultCtx(t) : t \in Threads}) + Len(tokens)

\* The bounds of the scenario: with a second thread the program constructs one
\* object less and does not nest run calls.
Concurrent == threads = Threads

ObjBound == IF Concurrent THEN MaxObj - 1 ELSE MaxObj

DepthBound == IF Concurrent THEN 1 ELSE MaxDepth

\* Whether the model lets the program construct one more.
CanConstruct == Objects < ObjBound

NewId == CHOOSE c \in UserIds \ made : \A d \in UserIds \ made : c <= d

StateAfterGet(u) == [stateCtx EXCEPT ![u] = CtxOf(u)]

\* A variant of Token that records MISSING whatever binding the set replaced.
TokenForgets(ctx, var, old) ==
    [context |-> ctx, var |-> var, old_value |-> MISSING, used |-> FALSE]

\* Token.__init__
Token(ctx, var, old) == [context |-> ctx, var |-> var, old_value |-> old, used |-> FALSE]

Idle == [at |-> "idle", ctx |-> None, from |-> None, how |-> "none"]

NoSet == [tok |-> 0, before |-> EmptyMap, undone |-> FALSE, failed |-> 0, error |-> "none"]

NoTaskRec == [made |-> FALSE, started |-> FALSE, own |-> None, snap |-> EmptyMap]

Init ==
    /\ threads \in {{LoopThread}, Threads}
    /\ made = {}
    /\ data = [c \in Ctx |-> EmptyMap]
    /\ prev = [c \in Ctx |-> None]
    /\ userCtx = {}
    /\ stateCtx = [u \in Units |-> None]
    /\ tokens = <<>>
    /\ stack = [u \in Units |-> <<>>]
    /\ pc = [t \in Threads |-> Idle]
    /\ cur = NoTask
    /\ task = [k \in Tasks |-> NoTaskRec]
    /\ origin = [c \in Ctx |-> None]
    /\ lastSet = NoSet

\* A variant of Lookup that consults the fallback and the default before the
\* binding of the active context.
LookupDefaultFirst(u, var, fb) ==
    LET bound == IF NeedsNew(u) THEN MISSING ELSE MapGet(data[stateCtx[u]], var)
    IN IF fb # NO_DEFAULT THEN fb
       ELSE IF DefaultOf(var) # NO_DEFAULT THEN DefaultOf(var)
       ELSE IF bound # MISSING THEN bound
       ELSE LookupError

\* A variant of Lookup that prefers the constructor default to the fallback of
\* the call.
LookupFallbackLast(u, var, fb) ==
    LET bound == IF NeedsNew(u) THEN MISSING ELSE MapGet(data[stateCtx[u]], var)
    IN IF bound # MISSING THEN bound
       ELSE IF DefaultOf(var) # NO_DEFAULT THEN DefaultOf(var)
       ELSE IF fb # NO_DEFAULT THEN fb
       ELSE LookupError

\* ContextVar.get: what get(fallback) returns to unit u.
Lookup(u, var, fb) ==
    LET bound == IF NeedsNew(u) THEN MISSING ELSE MapGet(data[stateCtx[u]], var)
    IN IF bound # MISSING THEN bound
       ELSE IF fb # NO_DEFAULT THEN fb
       ELSE IF DefaultOf(var) # NO_DEFAULT THEN DefaultOf(var)
       ELSE LookupError

Get(t, var, fb) ==
    LET u == Running(t)
    IN /\ t \in threads /\ pc[t].at = "idle"
       /\ CanGetContext(u)
       /\ made' = MadeAfterGet(u)
       /\ stateCtx' = StateAfterGet(u)
       /\ lastSet' = NoSet
       /\ UNCHANGED <<threads, data, prev, userCtx, tokens, stack, pc, cur, task, origin>>

\* A variant of Set that updates the map in place, so that a context still
\* sharing the map with this one (its copy, or its source) sees the new value.
SetInPlace(t, var, x) ==
    LET u == Running(t)
        ctx == CtxOf(u)
        shares(d) == d = ctx \/ (data[d] = data[ctx] /\ (origin[d] = ctx \/ origin[ctx] = d))
    IN /\ t \in threads /\ pc[t].at = "idle"
       /\ CanGetContext(u)
       /\ CanConstruct
       /\ made' = MadeAfterGet(u)
       /\ stateCtx' = StateAfterGet(u)
       /\ data' = [d \in Ctx |-> IF shares(d) THEN MapSet(data[d], var, x) ELSE data[d]]
       /\ tokens' = Append(tokens, Token(ctx, var, MapGet(data[ctx], var)))
       /\ lastSet' = [NoSet EXCEPT !.tok = Len(tokens) + 1, !.before = data[ctx]]
       /\ UNCHANGED <<threads, prev, userCtx, stack, pc, cur, task, origin>>

\* A variant of Set that gives the context a map holding the new binding
\* alone, dropping the bindings of the other variables.
SetAlone(t, var, x) ==
    LET u == Running(t)
        ctx == CtxOf(u)
    IN /\ t \in threads /\ pc[t].at = "idle"
       /\ CanGetContext(u)
       /\ CanConstruct
       /\ made' = MadeAfterGet(u)
       /\ stateCtx' = StateAfterGet(u)
       /\ data' = [data EXCEPT ![ctx] = MapSet(EmptyMap, var, x)]
       /\ tokens' = Append(tokens, Token(ctx, var, MapGet(data[ctx], var)))
       /\ lastSet' = [NoSet EXCEPT !.tok = Len(tokens) + 1, !.before = data[ctx]]
       /\ UNCHANGED <<threads, prev, userCtx, stack, pc, cur, task, origin>>

\* ContextVar.set
Set(t, var, x) ==
    LET u == Running(t)
        ctx == CtxOf(u)
    IN /\ t \in threads /\ pc[t].at = "idle"
       /\ CanGetContext(u)
       /\ CanConstruct
       /\ made' = MadeAfterGet(u)
       /\ stateCtx' = StateAfterGet(u)
       /\ data' = [data EXCEPT ![ctx] = MapSet(data[ctx], var, x)]
       /\ tokens' = Append(tokens, Token(ctx, var, MapGet(data[ctx], var)))
       /\ lastSet' = [NoSet EXCEPT !.tok = Len(tokens) + 1, !.before = data[ctx]]
       /\ UNCHANGED <<threads, prev, userCtx, stack, pc, cur, task, origin>>

\* A variant of ResetOutcome that checks the variable before the used flag.
ResetOutcomeVarFirst(u, var, i) ==
    IF tokens[i].var # var THEN "ValueErrorVar"
    ELSE IF tokens[i].used THEN "RuntimeError"
    ELSE IF tokens[i].context # CtxOf(u) THEN "ValueErrorCtx"
    ELSE IF tokens[i].old_value = MISSING
            /\ MapGet(data[tokens[i].context], tokens[i].var) = MISSING THEN "KeyError"
    ELSE "ok"

\* A variant of ResetOutcome that compares the bindings of the token's context
\* with those of the active one, not the identity of the two objects.
ResetOutcomeByContent(u, var, i) ==
    LET active == IF NeedsNew(u) THEN EmptyMap ELSE data[stateCtx[u]]
    IN IF tokens[i].used THEN "RuntimeError"
       ELSE IF tokens[i].var # var THEN "ValueErrorVar"
       ELSE IF data[tokens[i].context] # active THEN "ValueErrorCtx"
       ELSE IF tokens[i].old_value = MISSING
               /\ MapGet(data[tokens[i].context], tokens[i].var) = MISSING THEN "KeyError"
       ELSE "ok"

\* ContextVar.reset: the checks in the order of the source, then the undo.
ResetOutcome(u, var, i) ==
    IF tokens[i].used THEN "RuntimeError"
    ELSE IF tokens[i].var # var THEN "ValueErrorVar"
    ELSE IF tokens[i].context # CtxOf(u) THEN "ValueErrorCtx"
    ELSE IF tokens[i].old_value = MISSING
            /\ MapGet(data[tokens[i].context], tokens[i].var) = MISSING THEN "KeyError"
    ELSE "ok"

\* Whether reset gets as far as its call of _get_context (line 130).
ResetResolves(u, var, i) == ResetOutcome(u, var, i) \notin {"RuntimeError", "ValueErrorVar"}

\* A variant of ResetData that deletes the binding whatever the token captured.
ResetDataDelete(i) ==
    [data EXCEPT ![tokens[i].context] = MapDelete(data[tokens[i].context], tokens[i].var)]

\* A variant of ResetData that treats the tokens of a variable as a stack: it
\* undoes the latest set of the variable in that context not yet undone,
\* whichever token it is given.
ResetDataLifo(i) ==
    LET tk == tokens[i]
        open == {j \in 1..Len(tokens) : /\ ~tokens[j].used
                                        /\ tokens[j].context = tk.context
                                        /\ tokens[j].var = tk.var}
        top == CHOOSE j \in open : \A n \in open : n <= j
        old == tokens[top].old_value
    IN IF old = MISSING
       THEN [data EXCEPT ![tk.context] = MapDelete(data[tk.context], tk.var)]
       ELSE [data EXCEPT ![tk.context] = MapSet(data[tk.context], tk.var, old)]

\* ContextVar.reset, lines 134-138: the bindings after the undo.
ResetData(i) ==
    LET tk == tokens[i]
    IN IF tk.old_value = MISSING
       THEN [data EXCEPT ![tk.context] = MapDelete(data[tk.context], tk.var)]
       ELSE [data EXCEPT ![tk.context] = MapSet(data[tk.context], tk.var, tk.old_value)]

\* A variant of Reset that marks the token used as soon as it has passed the
\* first check, so that a rejected token is spent all the same.
ResetConsumes(t, var, i) ==
    LET u == Running(t)
        out == ResetOutcome(u, var, i)
    IN /\ t \in threads /\ pc[t].at = "idle"
       /\ i \in 1..Len(tokens)
       /\ ResetResolves(u, var, i) => CanGetContext(u)
       /\ made' = IF ResetResolves(u, var, i) THEN MadeAfterGet(u) ELSE made
       /\ stateCtx' = IF ResetResolves(u, var, i) THEN StateAfterGet(u) ELSE stateCtx
       /\ data' = IF out = "ok" THEN ResetData(i) ELSE data
       /\ tokens' = [tokens EXCEPT ![i].used = TRUE]
       /\ lastSet' = IF out = "ok" /\ lastSet.tok = i /\ ~lastSet.undone
                     THEN [lastSet EXCEPT !.undone = TRUE]
                     ELSE IF out = "ok" THEN NoSet
                     ELSE [NoSet EXCEPT !.failed = i, !.error = out]
       /\ UNCHANGED <<threads, prev, userCtx, stack, pc, cur, task, origin>>

Reset(t, var, i) ==
    LET u == Running(t)
        out == ResetOutcome(u, var, i)
    IN /\ t \in threads /\ pc[t].at = "idle"
       /\ i \in 1..Len(tokens)
       /\ ResetResolves(u, var, i) => CanGetContext(u)
       /\ made' = IF ResetResolves(u, var, i) THEN MadeAfterGet(u) ELSE made
       /\ stateCtx' = IF ResetResolves(u, var, i) THEN StateAfterGet(u) ELSE stateCtx
       /\ data' = IF out = "ok" THEN ResetData(i) ELSE data
       /\ tokens' = IF out = "ok" THEN [tokens EXCEPT ![i].used = TRUE] ELSE tokens
       /\ lastSet' = IF out = "ok" /\ lastSet.tok = i /\ ~lastSet.undone
                     THEN [lastSet EXCEPT !.undone = TRUE]
                     ELSE IF out = "ok" THEN NoSet
                     ELSE [NoSet EXCEPT !.failed = i, !.error = out]
       /\ UNCHANGED <<threads, prev, userCtx, stack, pc, cur, task, origin>>

\* Context(): a new context with an empty map, not entered.
NewContext(t) ==
    LET new == NewId
    IN /\ t \in threads /\ pc[t].at = "idle"
       /\ CanConstruct
       /\ made' = made \cup {new}
       /\ data' = [data EXCEPT ![new] = EmptyMap]
       /\ prev' = [prev EXCEPT ![new] = None]
       /\ userCtx' = userCtx \cup {new}
       /\ lastSet' = NoSet
       /\ UNCHANGED <<threads, stateCtx, tokens, stack, pc, cur, task, origin>>

\* A variant of Copy that carries the entered marker of the source over to
\* the new context.
CopyKeepsMarker(t, c) ==
    LET new == NewId
    IN /\ t \in threads /\ pc[t].at = "idle"
       /\ c \in userCtx
       /\ CanConstruct
       /\ made' = made \cup {new}
       /\ data' = [data EXCEPT ![new] = data[c]]
       /\ prev' = [prev EXCEPT ![new] = prev[c]]
       /\ userCtx' = userCtx \cup {new}
       /\ origin' = [origin EXCEPT ![new] = c]
       /\ lastSet' = NoSet
       /\ UNCHANGED <<threads, stateCtx, tokens, stack, pc, cur, task>>

\* Context.copy on a context the program holds.
Copy(t, c) ==
    LET new == NewId
    IN /\ t \in threads /\ pc[t].at = "idle"
       /\ c \in userCtx
       /\ CanConstruct
       /\ made' = made \cup {new}
       /\ data' = [data EXCEPT ![new] = data[c]]
       /\ prev' = [prev EXCEPT ![new] = None]
       /\ userCtx' = userCtx \cup {new}
       /\ origin' = [origin EXCEPT ![new] = c]
       /\ lastSet' = NoSet
       /\ UNCHANGED <<threads, stateCtx, tokens, stack, pc, cur, task>>

\* copy_context(): _get_context().copy()
CopyContext(t) ==
    LET u == Running(t)
        c == CtxOf(u)
        new == NewId
    IN /\ t \in threads /\ pc[t].at = "idle"
       /\ CanGetContext(u)
       /\ CanConstruct
       /\ made' = MadeAfterGet(u) \cup {new}
       /\ stateCtx' = StateAfterGet(u)
       /\ data' = [data EXCEPT ![new] = data[c]]
       /\ prev' = [prev EXCEPT ![new] = None]
       /\ userCtx' = userCtx \cup {new}
       /\ origin' = [origin EXCEPT ![new] = c]
       /\ lastSet' = NoSet
       /\ UNCHANGED <<threads, tokens, stack, pc, cur, task>>

\* Context.run, lines 33-35: a context whose _prev_context is set is rejected
\* with RuntimeError ("already entered").
RunRejects(c) == prev[c] # None

\* Context.run, line 33: the entered check.  A rejected call raises and leaves
\* everything as it was; otherwise the call goes on to line 37.
RunCheck(t, c) ==
    /\ t \in threads /\ pc[t].at = "idle"
    /\ c \in userCtx
    /\ Len(stack[Running(t)]) < DepthBound
    /\ pc' = IF RunRejects(c) THEN pc
             ELSE [pc EXCEPT ![t] = [Idle EXCEPT !.at = "record", !.ctx = c]]
    /\ lastSet' = NoSet
    /\ UNCHANGED <<threads, made, data, prev, userCtx, stateCtx, tokens, stack, cur, task, origin>>

\* Context.run, line 37: self._prev_context = _get_context()
RunRecord(t) ==
    LET u == Running(t)
        c == pc[t].ctx
    IN /\ t \in threads
       /\ pc[t].at = "record"
       /\ CanGetContext(u)
       /\ made' = MadeAfterGet(u)
       /\ stateCtx' = StateAfterGet(u)
       /\ prev' = [prev EXCEPT ![c] = CtxOf(u)]
       /\ pc' = [pc EXCEPT ![t] = [Idle EXCEPT !.at = "install", !.ctx = c,
                                               !.from = CtxOf(u)]]
       /\ lastSet' = NoSet
       /\ UNCHANGED <<threads, data, userCtx, tokens, stack, cur, task, origin>>

\* _set_context
SetContext(u, c) == [stateCtx EXCEPT ![u] = c]

\* Context.run, lines 38-40: _set_context(self), then the callable starts.
\* The frame keeps, as history, the context the caller had when it called run
\* and the bindings of that context.
RunInstall(t) ==
    LET u == Running(t)
        c == pc[t].ctx
    IN /\ t \in threads
       /\ pc[t].at = "install"
       /\ stateCtx' = SetContext(u, c)
       /\ stack' = [stack EXCEPT ![u] = Append(@, [self |-> c, caller |-> pc[t].from,
                                                 before |-> data[pc[t].from]])]
       /\ pc' = [pc EXCEPT ![t] = Idle]
       /\ lastSet' = NoSet
       /\ UNCHANGED <<threads, made, data, prev, userCtx, tokens, cur, task, origin>>

\* Context.run, line 42: the callable returned or raised, and the finally
\* clause installs self._prev_context.
RunRestore(t, how) ==
    LET u == Running(t)
        top == stack[u][Len(stack[u])]
    IN /\ t \in threads /\ pc[t].at = "idle"
       /\ stack[u] # <<>>
       /\ stateCtx' = SetContext(u, prev[top.self])
       /\ pc' = [pc EXCEPT ![t] = [Idle EXCEPT !.at = "clear", !.ctx = top.self,
                                               !.from = top.caller, !.how = how]]
       /\ lastSet' = NoSet
       /\ UNCHANGED <<threads, made, data, prev, userCtx, tokens, stack, cur, task, origin>>

\* Context.run, line 43: self._prev_context = None, and run is left.
RunClear(t) ==
    LET u == Running(t)
        c == pc[t].ctx
    IN /\ t \in threads
       /\ pc[t].at = "clear"
       /\ prev' = [prev EXCEPT ![c] = None]
       /\ stack' = [stack EXCEPT ![u] = SubSeq(@, 1, Len(@) - 1)]
       /\ pc' = [pc EXCEPT ![t] = Idle]
       /\ lastSet' = NoSet
       /\ UNCHANGED <<threads, made, data, userCtx, stateCtx, tokens, cur, task, origin>>

\* create_task, the hook patched onto the loop: task.context = copy_context().
\* The loop's tasks are created in the order k1, k2.
NextTask == IF ~task["k1"].made THEN "k1" ELSE "k2"

\* A variant of CreateTask that gives the task the creator's context itself.
CreateTaskShared(t) ==
    LET u == Running(t)
        c == CtxOf(u)
        k == NextTask
    IN /\ t = LoopThread
       /\ t \in threads /\ pc[t].at = "idle"
       /\ ~task[k].made
       /\ CanGetContext(u)
       /\ CanConstruct
       /\ made' = MadeAfterGet(u)
       /\ stateCtx' = [StateAfterGet(u) EXCEPT ![k] = c]
       /\ task' = [task EXCEPT ![k] = [made |-> TRUE, started |-> FALSE, own |-> c,
                                       snap |-> data[c]]]
       /\ lastSet' = NoSet
       /\ UNCHANGED <<threads, data, prev, origin, userCtx, tokens, stack, pc, cur>>

CreateTask(t) ==
    LET u == Running(t)
        c == CtxOf(u)
        k == NextTask
        new == TaskCtx(k)
    IN /\ t = LoopThread
       /\ t \in threads /\ pc[t].at = "idle"
       /\ ~task[k].made
       /\ CanGetContext(u)
       /\ CanConstruct
       /\ made' = MadeAfterGet(u) \cup {new}
       /\ data' = [data EXCEPT ![new] = data[c]]
       /\ prev' = [prev EXCEPT ![new] = None]
       /\ stateCtx' = [StateAfterGet(u) EXCEPT ![k] = new]
       /\ origin' = [origin EXCEPT ![new] = c]
       /\ task' = [task EXCEPT ![k] = [made |-> TRUE, started |-> FALSE, own |-> new,
                                       snap |-> data[c]]]
       /\ lastSet' = NoSet
       /\ UNCHANGED <<threads, userCtx, tokens, stack, pc, cur>>

\* The event loop at a suspension point: it resumes task k, or goes back to
\* thread-level code (k = NoTask).  A task inside Context.run cannot suspend.
Switch(k) ==
    /\ pc[LoopThread].at = "idle"
    /\ k # cur
    /\ k # NoTask => task[k].made
    /\ cur # NoTask => stack[cur] = <<>>
    /\ cur' = k
    /\ task' = IF k # NoTask THEN [task EXCEPT ![k].started = TRUE] ELSE task
    /\ lastSet' = NoSet
    /\ UNCHANGED <<threads, made, data, prev, userCtx, stateCtx, tokens, stack, pc, origin>>

Next ==
    \/ \E t \in Threads, var \in Vars, fb \in Vals \cup {NO_DEFAULT} : Get(t, var, fb)
    \/ \E t \in Threads, var \in Vars, x \in Vals : Set(t, var, x)
    \/ \E t \in Threads, var \in Vars, i \in 1..MaxObj : Reset(t, var, i)
    \/ \E t \in Threads : NewContext(t)
    \/ \E t \in Threads, c \in Ctx : Copy(t, c)
    \/ \E t \in Threads : CopyContext(t)
    \/ \E t \in Threads, c \in Ctx : RunCheck(t, c)
    \/ \E t \in Threads : RunRecord(t)
    \/ \E t \in Threads : RunInstall(t)
    \/ \E t \in Threads, how \in {"return", "raise"} : RunRestore(t, how)
    \/ \E t \in Threads : RunClear(t)
    \/ \E t \in Threads : CreateTask(t)
    \/ \E k \in Tasks \cup {NoTask} : Switch(k)

Spec == Init /\ [][Next]_vars

----------------------------------------------------------------------------
\* The units that exist: the program's threads and the tasks created so far.
Live == threads \cup {k \in Tasks : task[k].made}

Fallbacks == Vals \cup {NO_DEFAULT}

\* C1: right after v.set(x) with context C active, v.get() in C returns x,
\* whatever the previous binding, the constructor default or the fallback.
C1_SetThenGet ==
    [][\A t \in Threads, var \in Vars, x \in Vals :
          Set(t, var, x) => \A fb \in Fallbacks : Lookup(Running(t), var, fb)' = x]_vars

\* A set has just replaced a different binding of v, whose default is a third value.
C1_Witness ==
    /\ lastSet.tok # 0 /\ ~lastSet.undone
    /\ tokens[lastSet.tok].var = "v"
    /\ lastSet.before["v"] # MISSING
    /\ data[tokens[lastSet.tok].context]["v"] # lastSet.before["v"]

\* C2: t = v.set(x) followed directly by v.reset(t) in C leaves the bindings of
\* C exactly as they were before the set (bound to the same value, or unbound).
C2_TokenRoundTrip ==
    lastSet.undone => data[tokens[lastSet.tok].context] = lastSet.before

\* A set of an unbound variable, undone directly: the variable is unbound again.
C2_Witness ==
    /\ lastSet.undone
    /\ lastSet.before[tokens[lastSet.tok].var] = MISSING
    /\ tokens[lastSet.tok].used

TokenIds == 1..Len(tokens)

\* C3: a token is redeemed at most once.  Once used it stays used, and a reset
\* with it is rejected as already used by whichever unit tries it, on whichever
\* variable, whatever context is active (the check comes before the others).
C3_TokenUsedOnce ==
    [][\A i \in TokenIds : tokens[i].used =>
          /\ tokens'[i].used
          /\ \A u \in Units, var \in Vars : ResetOutcome(u, var, i)' = "RuntimeError"]_vars

\* A used token, and a unit whose active context is not the token's.
C3_Witness ==
    \E i \in TokenIds, u \in Live :
        /\ tokens[i].used
        /\ stateCtx[u] \notin {None, tokens[i].context}
        /\ \E var \in Vars : var # tokens[i].var

\* C4: a reset of an unused token succeeds only on the variable that made the
\* token and while the very Context object of its creation is active; another
\* variable is the wrong-variable error, another context object the
\* wrong-context error, also when that context has equal bindings.
C4_ResetScope ==
    \A i \in TokenIds, u \in Live, var \in Vars :
        ~tokens[i].used =>
            /\ ResetOutcome(u, var, i) = "ok" =>
                   tokens[i].var = var /\ tokens[i].context = CtxOf(u)
            /\ tokens[i].var # var => ResetOutcome(u, var, i) = "ValueErrorVar"
            /\ tokens[i].var = var /\ tokens[i].context # CtxOf(u) =>
                   ResetOutcome(u, var, i) = "ValueErrorCtx"

\* An unused token while a copy of its context, with equal bindings, is active.
C4_Witness ==
    \E i \in TokenIds, u \in Live :
        /\ ~tokens[i].used
        /\ stateCtx[u] \notin {None, tokens[i].context}
        /\ origin[stateCtx[u]] = tokens[i].context
        /\ data[stateCtx[u]] = data[tokens[i].context]
        /\ ResetOutcome(u, tokens[i].var, i) = "ValueErrorCtx"

\* A step that constructs context d as a copy.
Copied(d) == d \notin made /\ d \in made' /\ origin'[d] # None

\* C5: a copy starts with the bindings its source has at that moment, and a set
\* or reset changes the bindings of the context active for the caller only: not
\* those of the contexts copied from it, nor of the context it was copied from.
C5_CopyIsolation ==
    [][/\ \A d \in Ctx : Copied(d) =>
              data'[d] = data[origin'[d]] /\ data'[origin'[d]] = data[origin'[d]]
       /\ \A t \in Threads, var \in Vars :
              (\E x \in Vals : Set(t, var, x)) \/ (\E i \in TokenIds : Reset(t, var, i)) =>
                  \A d \in Ctx \ {CtxOf(Running(t))} : data'[d] = data[d]]_vars

\* A context and its copy whose bindings have come apart, either way round.
C5_Witness ==
    \E c, d \in made :
        /\ origin[d] = c
        /\ data[c]["v"] # data[d]["v"]
        /\ data[c]["w"] # data[d]["w"]

\* C6: when C.run finishes, by return or by raise, the context active for the
\* caller is the one that was active when it called run, at every level of
\* nesting: once line 42 has run, the unit's context is the one its frame was
\* entered from.
C6_RunRestoresCaller ==
    \A t \in threads : pc[t].at = "clear" => stateCtx[Running(t)] = pc[t].from

\* C7: a C.run call made inside a callable that C.run is executing is rejected
\* as already entered (and a rejected call changes nothing): every context
\* with a frame on some unit's stack is one that run rejects.
C7_ReentryRejected ==
    \A u \in Units : \A n \in 1..Len(stack[u]) : RunRejects(stack[u][n].self)

\* C8: a Context is never entered by two units at once, so no two units resolve
\* to the same Context object, under every interleaving of the threads.
C8_OneUnitPerContext ==
    \A u1, u2 \in Units :
        u1 # u2 /\ stateCtx[u1] # None => stateCtx[u1] # stateCtx[u2]

\* C9: a task created through the hook starts with a copy of the bindings its
\* creator had at creation; until its body first runs it holds exactly those,
\* in a context of its own, whatever the creator sets or resets meanwhile.
C9_TaskInheritsAtSpawn ==
    \A k \in Tasks : task[k].made /\ ~task[k].started =>
        /\ stateCtx[k] = task[k].own
        /\ origin[task[k].own] # task[k].own
        /\ data[task[k].own] = task[k].snap

\* A task not yet run that inherited a binding, whose creator has since changed
\* that binding.
C9_Witness ==
    \E k \in Tasks :
        /\ task[k].made /\ ~task[k].started
        /\ task[k].snap["w"] # MISSING
        /\ data[origin[task[k].own]]["w"] # task[k].snap["w"]

\* A unit of the loop at a suspension point: not inside Context.run.
Suspended(k) == stack[k] = <<>> /\ (cur = k => pc[LoopThread].at = "idle")

\* C10: every task resolves to the context captured at its creation for its
\* whole lifetime, and no task shares its context with its parent, a sibling
\* or the thread-level code, so a set or reset in one is not seen by another.
C10_TaskIsolation ==
    /\ \A k \in Tasks : task[k].made /\ Suspended(k) => stateCtx[k] = task[k].own
    /\ \A k \in Tasks, u \in Tasks \cup {LoopThread} :
           task[k].made /\ u # k => stateCtx[k] # stateCtx[u]

\* The binding of var in the context active for unit u (MISSING: unbound, or
\* the unit has no context yet and would be given an empty one).
Bound(u, var) == IF stateCtx[u] = None THEN MISSING ELSE data[stateCtx[u]][var]

\* C11: get(fallback) returns the binding of the active context if there is
\* one, else the fallback if one was passed, else the constructor default if
\* there is one, else it raises LookupError; and a get changes no bindings.
C11_GetPrecedence ==
    [][\A t \in Threads, var \in Vars, fb \in Fallbacks :
          Get(t, var, fb) =>
              /\ data' = data
              /\ Lookup(Running(t), var, fb)' =
                     IF Bound(Running(t), var) # MISSING THEN Bound(Running(t), var)
                     ELSE IF fb # NO_DEFAULT THEN fb
                     ELSE IF DefaultOf(var) # NO_DEFAULT THEN DefaultOf(var)
                     ELSE LookupError]_vars

\* The four cases side by side: a unit for which v (with a default) is bound
\* and w (without one) is not, and a unit for which v is not bound either, so
\* that get returns a binding, a fallback, the default, and raises.
C11_Witness ==
    \E u1, u2 \in Live :
        /\ stateCtx[u1] # None /\ stateCtx[u2] # None
        /\ Lookup(u1, "v", 2) = 1
        /\ Lookup(u1, "w", 2) = 2
        /\ Lookup(u2, "v", NO_DEFAULT) = 3
        /\ Lookup(u2, "v", 1) = 1
        /\ Lookup(u1, "w", NO_DEFAULT) = LookupError

\* A step in which unit u, having no context, is given one by _get_context:
\* the context is newly constructed, and empty but for the binding a set made
\* in the same call.
LazyFresh(u) ==
    stateCtx[u] = None /\ stateCtx'[u] # None /\ u \in Threads =>
        /\ stateCtx'[u] \notin made /\ stateCtx'[u] \in made'
        /\ \A d \in Ctx \ {stateCtx'[u]} : data'[d] = data[d]
        /\ \/ data'[stateCtx'[u]] = EmptyMap
           \/ \E var \in Vars, x \in Vals :
                  Set(u, var, x) /\ data'[stateCtx'[u]] = MapSet(EmptyMap, var, x)

\* A step that changes the context of a unit that has one is a step of
\* Context.run (line 39 or line 42) made by that unit.
SameUntilRun(u) ==
    stateCtx[u] # None /\ stateCtx'[u] # stateCtx[u] =>
        \E t \in Threads : Running(t) = u /\
            (RunInstall(t) \/ \E how \in {"return", "raise"} : RunRestore(t, how))

\* A set or reset by thread t leaves what get returns in every other thread.
OtherThreadsKeep(t) ==
    (\E var \in Vars : (\E x \in Vals : Set(t, var, x)) \/ (\E i \in TokenIds : Reset(t, var, i))) =>
        \A t2 \in threads \ {t}, var \in Vars, fb \in Fallbacks :
            Lookup(Running(t2), var, fb)' = Lookup(Running(t2), var, fb)

\* C12: a unit without a context gets a new, empty Context at its first access
\* and inherits nothing; it keeps that Context object until run installs
\* another; and a set or reset in one thread never changes what get returns in
\* another thread.
C12_ThreadIsolation ==
    [][/\ \A u \in Units : LazyFresh(u) /\ SameUntilRun(u)
       /\ \A t \in Threads : OtherThreadsKeep(t)]_vars

\* C13: a set captures the binding it replaces, and a successful reset with a
\* token leaves its variable, in the token's context, bound to the value the
\* token captured (unbound if it captured MISSING), whatever sets and resets
\* of the variable came in between.
C13_OutOfOrderUndo ==
    [][\A t \in Threads, var \in Vars :
          /\ \A x \in Vals : Set(t, var, x) =>
                 tokens'[Len(tokens')].old_value = Bound(Running(t), var)
          /\ \A i \in TokenIds :
                 Reset(t, var, i) /\ ResetOutcome(Running(t), var, i) = "ok" =>
                     data'[tokens[i].context][var] = tokens[i].old_value]_vars

\* t1 = v.set(1); t2 = v.set(2); v.reset(t1); v.reset(t2): both tokens are used
\* and v is bound to 1, which only the order t1, t2 of the resets produces.
C13_Witness ==
    /\ Len(tokens) = 2
    /\ tokens[1].used /\ tokens[2].used
    /\ tokens[1].var = tokens[2].var /\ tokens[1].context = tokens[2].context
    /\ tokens[1].old_value = MISSING /\ tokens[2].old_value = 1
    /\ data[tokens[1].context][tokens[1].var] = 1

\* C14: a reset that fails changes nothing: all bindings, the entered markers,
\* the tokens' used flags and the context each unit resolves to are as before
\* the call; and a token rejected for the wrong variable or the wrong context
\* is then still redeemed by its own variable in its own context.
C14_FailedResetChangesNothing ==
    [][\A t \in Threads, var \in Vars, i \in TokenIds :
          Reset(t, var, i) /\ ResetOutcome(Running(t), var, i) # "ok" =>
              /\ data' = data /\ tokens' = tokens /\ prev' = prev
              /\ \A u \in Units : CtxOf(u)' = CtxOf(u)
              /\ ~tokens[i].used =>
                     \A u \in Units : CtxOf(u)' = tokens[i].context =>
                         ResetOutcome(u, tokens[i].var, i)' = "ok"]_vars

\* A reset has just been rejected for the wrong context, by a unit running in
\* a copy of the token's context, while the unit the token belongs to can still
\* redeem it.
C14_Witness ==
    /\ lastSet.error = "ValueErrorCtx"
    /\ ~tokens[lastSet.failed].used
    /\ \E u1, u2 \in Live :
           /\ stateCtx[u1] = tokens[lastSet.failed].context
           /\ stateCtx[u2] \notin {None, stateCtx[u1]}
           /\ data[stateCtx[u2]] = data[stateCtx[u1]]
           /\ data[stateCtx[u1]][tokens[lastSet.failed].var] # MISSING

\* C15: a successful set or reset of v changes the binding of v in the active
\* context and nothing else: the other variables of that context and every
\* binding of every other context, copies sharing its map included, stay as
\* they were.
C15_SetResetFrame ==
    [][\A t \in Threads, var \in Vars :
          \/ \E x \in Vals : Set(t, var, x)
          \/ \E i \in TokenIds : Reset(t, var, i) /\ ResetOutcome(Running(t), var, i) = "ok"
          => \A d \in Ctx, other \in Vars :
                 d # CtxOf(Running(t)) \/ other # var => data'[d][other] = data[d][other]]_vars

\* A set has just rebound a variable in a context where the other variable is
\* bound too, and of which a copy with the bindings from before the set exists.
C15_Witness ==
    /\ lastSet.tok # 0 /\ ~lastSet.undone
    /\ \E other \in Vars \ {tokens[lastSet.tok].var} : lastSet.before[other] # MISSING
    /\ \E d \in made : origin[d] = tokens[lastSet.tok].context /\ data[d] = lastSet.before

\* A run call on c is in progress: it has executed line 37 and not yet line 43.
InProgress(c) ==
    \/ \E t \in threads : pc[t].at \in {"install", "clear"} /\ pc[t].ctx = c
    \/ \E u \in Units : \E n \in 1..Len(stack[u]) : stack[u][n].self = c

\* C16: a Context is marked entered exactly while a run call on it is in
\* progress, from before the context is installed until after the previous one
\* is restored: run rejects a context if and only if such a call is under way,
\* so a context whose run has returned or raised can be run again.
C16_EnteredWhileRunning ==
    \A c \in Ctx : RunRejects(c) <=> InProgress(c)

\* C17: a copy is a new Context object that is not entered, also when its
\* source is entered at that moment, and making it leaves the source's marker
\* alone; entering the copy (line 37) sets the copy's own marker and leaves
\* that of the source as it was.
C17_CopyUnentered ==
    [][/\ \A d \in Ctx : Copied(d) =>
              /\ ~RunRejects(d)'
              /\ \A c \in Ctx \ {d} : prev'[c] = prev[c]
       /\ \A t \in Threads : RunRecord(t) /\ origin[pc[t].ctx] # None =>
              /\ origin[pc[t].ctx] # pc[t].ctx
              /\ prev'[origin[pc[t].ctx]] = prev[origin[pc[t].ctx]]]_vars

\* A copy of an entered context is being run inside the run of its source:
\* both are entered, the copy from the source and the source from elsewhere.
C17_Witness ==
    \E u \in Live :
        /\ Len(stack[u]) = 2
        /\ origin[stack[u][2].self] = stack[u][1].self
        /\ prev[stack[u][2].self] = stack[u][1].self
        /\ prev[stack[u][1].self] \notin {None, stack[u][1].self, stack[u][2].self}
        /\ stateCtx[u] = stack[u][2].self

\* The unused tokens of variable var in context c that captured MISSING.
OpenMissing(c, var) ==
    {i \in TokenIds : /\ ~tokens[i].used
                      /\ tokens[i].context = c /\ tokens[i].var = var
                      /\ tokens[i].old_value = MISSING}

RunStep ==
    \E t \in Threads :
        \/ \E c \in Ctx : RunCheck(t, c)
        \/ RunRecord(t) \/ RunInstall(t) \/ RunClear(t)
        \/ \E how \in {"return", "raise"} : RunRestore(t, how)

\* C19: what a callable run by C.run binds belongs to C alone.  While the call
\* is in progress and when it ends, by return or by raise, the caller's context
\* has the bindings it had at the call; the sets and resets of the callable go
\* to C; and no step of run itself changes a binding, so C keeps what the
\* callable left, for its mapping view and for a later C.run.
C19_RunBindingsBelongToC ==
    [][/\ \A u \in Units : \A n \in 1..Len(stack'[u]) :
              data'[stack'[u][n].caller] = stack'[u][n].before
       /\ RunStep => data' = data
       /\ \A t \in Threads, var \in Vars :
              /\ stack[Running(t)] # <<>>
              /\ (\E x \in Vals : Set(t, var, x)) \/ (\E i \in TokenIds : Reset(t, var, i))
              => \A d \in Ctx \ {stack[Running(t)][Len(stack[Running(t)])].self} :
                     data'[d] = data[d]]_vars

====
